---- MODULE Spec2Model ----
(***************************************************************************)
(* Orchestration state machine of MobilityBench's agent: the Plan-and-     *)
(* Execute strategy (planner / worker_node / reporter) run by a graph      *)
(* engine with fan-out and join.                                           *)
(*                                                                         *)
(* A Python object that is shared by reference is modelled as a heap cell: *)
(* plan_obj is the one Plan object of a run; State's current_plan and the  *)
(* current_task handed to a worker are references into it, so an           *)
(* assignment such as task.status = ... changes plan_obj directly, whereas *)
(* a key of State changes only when the engine applies a returned update.  *)
(***************************************************************************)
EXTENDS Integers, Sequences, FiniteSets, TLC

\* ------------------------------------------------------------------ bounds
\* the largest number of Tasks a generated plan holds, over all of its steps
MaxPlanTasks == 3
DefaultMaxPlanIterations == 10

\* the max_plan_iterations values a run may be configured with
MaxPlanIterationsChoices == {0, 1, DefaultMaxPlanIterations}

\* --------------------------------------------------------------- Status
PENDING == "PENDING"
EXECUTING == "EXECUTING"
COMPLETED == "COMPLETED"
FAILED == "FAILED"

None == "None"
PlanRef == "plan"
END == "__end__"

\* ------------------------------------------------------------- messages
HumanMessage(c) == [type |-> "human", content |-> c, tool_calls |-> <<>>, src |-> 0]
AIMessage(c, calls, id) == [type |-> "ai", content |-> c, tool_calls |-> calls, src |-> id]
ToolMessage(name, id) == [type |-> "tool", content |-> name, tool_calls |-> <<>>, src |-> id]

\* forbidden_tools of worker_node
forbidden_tools == {"handoff_to_planner", "handoff_to_reporter"}

\* ------------------------------------------------------ Plan, Step, Task
NoResult == [kind |-> "none", detail |-> <<>>]

Task(id) == [task_id |-> id, task_description |-> "description", status |-> PENDING, execution_result |-> NoResult, tool_list |-> <<>>]

Step(s, n) == [status |-> PENDING, tasks |-> [j \in 1..n |-> Task((s - 1) * MaxPlanTasks + j)]]

\* the Plan object before a plan is generated (State.current_plan is None)
EmptyPlan == [steps |-> <<>>, current_step_index |-> 0]

\* shapes of a generated plan: the number of tasks of each of its steps
RECURSIVE Sum(_, _)
Sum(f, n) == IF n = 0 THEN 0 ELSE f[n] + Sum(f, n - 1)

PlanShapes == {sh \in UNION {[1..n -> 1..MaxPlanTasks] : n \in 0..MaxPlanTasks} : Sum(sh, Len(sh)) <= MaxPlanTasks}

raw_plan_to_plan(shape) == [steps |-> [s \in 1..Len(shape) |-> Step(s, shape[s])], current_step_index |-> 0]

\* ------------------------------------------------------- state updates
NoUpdate == [k \in {} |-> None]

\* _merge_updates, had it appended message lists instead of overwriting them
_merge_updates_appending(target, source) == [k \in (DOMAIN target) \cup (DOMAIN source) |-> IF k \in DOMAIN source THEN (IF k = "messages" /\ k \in DOMAIN target THEN target[k] \o source[k] ELSE source[k]) ELSE target[k]]

_merge_updates(target, source) == [k \in (DOMAIN target) \cup (DOMAIN source) |-> IF k \in DOMAIN source THEN source[k] ELSE target[k]]

\* record_execution, had it swallowed the exception of the node and returned its updates
record_execution_swallowing(node_result) == [node_result EXCEPT !.update = _merge_updates(NoUpdate, node_result.update), !.raised = FALSE]

\* the wrapper of every node: the node's Command with its update merged into a fresh dict
record_execution(node_result) == [node_result EXCEPT !.update = _merge_updates(NoUpdate, node_result.update)]

\* dict(state) followed by .update(extra)
DictUpdate(st, extra) == [k \in (DOMAIN st) \cup (DOMAIN extra) |-> IF k \in DOMAIN extra THEN extra[k] ELSE st[k]]

Indices(n) == [i \in 1..n |-> i]

\* a node's result: the Plan object as the node left it, and its Command;
\* llm_calls counts the agent invocations and tool_calls the direct tool invocations the
\* node made, raised tells that the node did not return but let an exception escape
Command(plan, update, goto, sends) == [plan |-> plan, update |-> update, goto |-> goto, sends |-> sends, llm_calls |-> 0, tool_calls |-> 0, raised |-> FALSE]

\* the node invoked an agent (one LLM exchange) on its way to this result
Invoked(cmd) == [cmd EXCEPT !.llm_calls = @ + 1]

\* the node invoked a tool itself on its way to this result
ToolInvoked(cmd) == [cmd EXCEPT !.tool_calls = @ + 1]

\* an exception leaves the node: no Command, the Plan object as it was
Raise(plan) == [Command(plan, NoUpdate, {}, <<>>) EXCEPT !.raised = TRUE]

\* ---------------------------------------------------------------- planner
\* _has_pending_step, had it stopped one step early
_has_pending_step_before_last(plan) == plan.steps # <<>> /\ plan.current_step_index + 1 < Len(plan.steps)

_has_pending_step(plan) == plan.steps # <<>> /\ plan.current_step_index < Len(plan.steps)

\* the Step object under the cursor, as its position in plan.steps
\* _get_current_step, had it returned the last step instead of the one under the cursor
_get_current_step_last(plan) == Len(plan.steps)

_get_current_step(plan) == plan.current_step_index + 1

_has_pending_worker_tasks(step) == \E j \in DOMAIN step.tasks : step.tasks[j].status = PENDING

\* _execute_worker_tasks, had it sent only the first pending task to a worker
_execute_worker_tasks_first_only(st, plan, s) ==
  LET current_step == plan.steps[s]
      pending_tasks == SelectSeq(Indices(Len(current_step.tasks)), LAMBDA j : current_step.tasks[j].status = PENDING)
      marked == [plan EXCEPT !.steps[s].tasks = [j \in DOMAIN current_step.tasks |-> IF current_step.tasks[j].status = PENDING THEN [current_step.tasks[j] EXCEPT !.status = EXECUTING] ELSE current_step.tasks[j]]]
  IN IF pending_tasks = <<>>
       THEN Command(plan, NoUpdate, {"planner"}, <<>>)
       ELSE Command(marked, NoUpdate, {}, <<DictUpdate(st, [current_task |-> <<s, pending_tasks[1]>>])>>)

\* _execute_worker_tasks, had it also routed to planner next to the worker branches
_execute_worker_tasks_and_planner(st, plan, s) ==
  LET current_step == plan.steps[s]
      pending_tasks == SelectSeq(Indices(Len(current_step.tasks)), LAMBDA j : current_step.tasks[j].status = PENDING)
      marked == [plan EXCEPT !.steps[s].tasks = [j \in DOMAIN current_step.tasks |-> IF current_step.tasks[j].status = PENDING THEN [current_step.tasks[j] EXCEPT !.status = EXECUTING] ELSE current_step.tasks[j]]]
  IN IF pending_tasks = <<>>
       THEN Command(plan, NoUpdate, {"planner"}, <<>>)
       ELSE Command(marked, NoUpdate, {"planner"},
                    [b \in DOMAIN pending_tasks |-> DictUpdate(st, [current_task |-> <<s, pending_tasks[b]>>])])

_execute_worker_tasks(st, plan, s) ==
  LET current_step == plan.steps[s]
      pending_tasks == SelectSeq(Indices(Len(current_step.tasks)), LAMBDA j : current_step.tasks[j].status = PENDING)
      marked == [plan EXCEPT !.steps[s].tasks = [j \in DOMAIN current_step.tasks |-> IF current_step.tasks[j].status = PENDING THEN [current_step.tasks[j] EXCEPT !.status = EXECUTING] ELSE current_step.tasks[j]]]
  IN IF pending_tasks = <<>>
       THEN Command(plan, NoUpdate, {"planner"}, <<>>)
       ELSE Command(marked, NoUpdate, {},
                    [b \in DOMAIN pending_tasks |-> DictUpdate(st, [current_task |-> <<s, pending_tasks[b]>>])])

\* _analyze_step_results_and_plan_next, had it advanced the cursor by two
_analyze_step_results_skipping(st, plan, s) ==
  LET current_step == plan.steps[s]
      failed_tasks == SelectSeq(current_step.tasks, LAMBDA t : t.status = FAILED)
  IN IF failed_tasks # <<>> /\ Len(failed_tasks) = Len(current_step.tasks)
       THEN Command(plan, NoUpdate, {"reporter"}, <<>>)
       ELSE Command([plan EXCEPT !.steps[s].status = COMPLETED, !.current_step_index = @ + 2],
                    [current_plan |-> PlanRef], {"planner"}, <<>>)

\* _analyze_step_results_and_plan_next, had it lacked the all-tasks-failed check
_analyze_step_results_never_aborting(st, plan, s) ==
  Command([plan EXCEPT !.steps[s].status = COMPLETED, !.current_step_index = @ + 1],
          [current_plan |-> PlanRef], {"planner"}, <<>>)

\* _analyze_step_results_and_plan_next, had it put the FAILED tasks of a partly failed
\* step back to PENDING for another try
_analyze_step_results_requeueing(st, plan, s) ==
  LET current_step == plan.steps[s]
      failed_tasks == SelectSeq(current_step.tasks, LAMBDA t : t.status = FAILED)
  IN IF failed_tasks # <<>> /\ Len(failed_tasks) = Len(current_step.tasks)
       THEN Command(plan, NoUpdate, {"reporter"}, <<>>)
       ELSE IF failed_tasks # <<>>
         THEN Command([plan EXCEPT !.steps[s].tasks = [j \in DOMAIN current_step.tasks |-> IF current_step.tasks[j].status = FAILED THEN [current_step.tasks[j] EXCEPT !.status = PENDING] ELSE current_step.tasks[j]]],
                      [current_plan |-> PlanRef], {"planner"}, <<>>)
         ELSE Command([plan EXCEPT !.steps[s].status = COMPLETED, !.current_step_index = @ + 1],
                      [current_plan |-> PlanRef], {"planner"}, <<>>)

\* _analyze_step_results_and_plan_next, had it also called the reporter when it advances
_analyze_step_results_reporting_early(st, plan, s) ==
  LET current_step == plan.steps[s]
      failed_tasks == SelectSeq(current_step.tasks, LAMBDA t : t.status = FAILED)
  IN IF failed_tasks # <<>> /\ Len(failed_tasks) = Len(current_step.tasks)
       THEN Command(plan, NoUpdate, {"reporter"}, <<>>)
       ELSE Command([plan EXCEPT !.steps[s].status = COMPLETED, !.current_step_index = @ + 1],
                    [current_plan |-> PlanRef], {"planner", "reporter"}, <<>>)

\* _analyze_step_results_and_plan_next, had it adjusted the plan when it advances: the
\* steps after the cursor are dropped
_analyze_step_results_replanning(st, plan, s) ==
  LET current_step == plan.steps[s]
      failed_tasks == SelectSeq(current_step.tasks, LAMBDA t : t.status = FAILED)
  IN IF failed_tasks # <<>> /\ Len(failed_tasks) = Len(current_step.tasks)
       THEN Command(plan, NoUpdate, {"reporter"}, <<>>)
       ELSE Command([steps |-> [SubSeq(plan.steps, 1, s) EXCEPT ![s].status = COMPLETED], current_step_index |-> plan.current_step_index + 1],
                    [current_plan |-> PlanRef], {"planner"}, <<>>)

_analyze_step_results_and_plan_next(st, plan, s) ==
  LET current_step == plan.steps[s]
      failed_tasks == SelectSeq(current_step.tasks, LAMBDA t : t.status = FAILED)
  IN IF failed_tasks # <<>> /\ Len(failed_tasks) = Len(current_step.tasks)
       THEN Command(plan, NoUpdate, {"reporter"}, <<>>)
       ELSE Command([plan EXCEPT !.steps[s].status = COMPLETED, !.current_step_index = @ + 1],
                    [current_plan |-> PlanRef], {"planner"}, <<>>)

\* outcomes of the planner's LLM call: it fails (raises, or nothing parses), or yields a RawPlan
PlannerOutcomes == {[ok |-> FALSE, shape |-> <<>>]} \cup {[ok |-> TRUE, shape |-> sh] : sh \in PlanShapes}

\* _generate_initial_plan, had it counted a generated plan as two planning passes
_generate_initial_plan_counting_two(st, llm) ==
  LET plan == raw_plan_to_plan(llm.shape)
  IN IF llm.ok /\ plan.steps # <<>>
       THEN Invoked(Command(plan,
                    [messages |-> st.messages, current_plan |-> PlanRef, plan_iterations |-> st.plan_iterations + 2, planner_intent |-> "intent", planner_training_data |-> [steps |-> llm.shape, intent |-> "intent"]],
                    {"planner"}, <<>>))
       ELSE Invoked(Command(EmptyPlan, NoUpdate, {"reporter"}, <<>>))

\* _generate_initial_plan, had it accepted a plan without steps
_generate_initial_plan_accepting_empty(st, llm) ==
  LET plan == raw_plan_to_plan(llm.shape)
  IN IF llm.ok
       THEN Invoked(Command(plan,
                    [messages |-> st.messages, current_plan |-> PlanRef, plan_iterations |-> st.plan_iterations + 1, planner_intent |-> "intent", planner_training_data |-> [steps |-> llm.shape, intent |-> "intent"]],
                    {"planner"}, <<>>))
       ELSE Invoked(Command(EmptyPlan, NoUpdate, {"reporter"}, <<>>))

\* _generate_initial_plan, had it gone back to the planner after a failed attempt
_generate_initial_plan_retrying(st, llm) ==
  LET plan == raw_plan_to_plan(llm.shape)
  IN IF llm.ok /\ plan.steps # <<>>
       THEN Invoked(Command(plan,
                    [messages |-> st.messages, current_plan |-> PlanRef, plan_iterations |-> st.plan_iterations + 1, planner_intent |-> "intent", planner_training_data |-> [steps |-> llm.shape, intent |-> "intent"]],
                    {"planner"}, <<>>))
       ELSE Invoked(Command(EmptyPlan, NoUpdate, {"planner"}, <<>>))

_generate_initial_plan(st, llm) ==
  LET plan == raw_plan_to_plan(llm.shape)
  IN IF llm.ok /\ plan.steps # <<>>
       THEN Invoked(Command(plan,
                    [messages |-> st.messages, current_plan |-> PlanRef, plan_iterations |-> st.plan_iterations + 1, planner_intent |-> "intent", planner_training_data |-> [steps |-> llm.shape, intent |-> "intent"]],
                    {"planner"}, <<>>))
       ELSE Invoked(Command(EmptyPlan, NoUpdate, {"reporter"}, <<>>))

InitialMessages(st) ==
  (IF st.context # None THEN <<HumanMessage("context")>> ELSE <<>>)
  \o (IF st.query # None THEN <<HumanMessage("query")>> ELSE <<>>)

\* planner_node, had it lacked the check of plan_iterations against the cap
planner_node_uncapped(state0, plan, maxIter, llm) ==
  LET first == state0.current_plan = None /\ state0.plan_iterations = 0
      st == IF first /\ InitialMessages(state0) # <<>>
              THEN [state0 EXCEPT !.messages = state0.messages \o InitialMessages(state0)]
              ELSE state0
  IN IF state0.current_plan = None THEN _generate_initial_plan(st, llm)
     ELSE IF _has_pending_step(plan)
       THEN IF _has_pending_worker_tasks(plan.steps[_get_current_step(plan)])
              THEN _execute_worker_tasks(st, plan, _get_current_step(plan))
              ELSE _analyze_step_results_and_plan_next(st, plan, _get_current_step(plan))
     ELSE Command(plan, NoUpdate, {"reporter"}, <<>>)

planner_node(state0, plan, maxIter, llm) ==
  LET first == state0.current_plan = None /\ state0.plan_iterations = 0
      st == IF first /\ InitialMessages(state0) # <<>>
              THEN [state0 EXCEPT !.messages = state0.messages \o InitialMessages(state0)]
              ELSE state0
  IN IF state0.plan_iterations >= maxIter THEN Command(plan, NoUpdate, {"reporter"}, <<>>)
     ELSE IF state0.current_plan = None THEN _generate_initial_plan(st, llm)
     ELSE IF _has_pending_step(plan)
       THEN IF _has_pending_worker_tasks(plan.steps[_get_current_step(plan)])
              THEN _execute_worker_tasks(st, plan, _get_current_step(plan))
              ELSE _analyze_step_results_and_plan_next(st, plan, _get_current_step(plan))
     ELSE Command(plan, NoUpdate, {"reporter"}, <<>>)

\* ----------------------------------------------------------------- worker
\* what a worker execution can meet: preparing the sub-agent raises (before the try),
\* the worker's call into the sub-agent raises, the LLM call fails inside agent_node,
\* or the LLM answers with some tool calls
ToolCallChoices == {<<>>, <<"query_poi">>, <<"handoff_to_planner">>, <<"query_poi", "handoff_to_reporter">>}

WorkerOutcomes == {[kind |-> "setup_exception", calls |-> <<>>], [kind |-> "exception", calls |-> <<>>], [kind |-> "llm_error", calls |-> <<>>]} \cup {[kind |-> "response", calls |-> c] : c \in ToolCallChoices}

\* the messages agent_node returns; the sub-agent's graph appends them to its input messages
agent_node(outcome, id) ==
  IF outcome.kind = "llm_error" THEN <<AIMessage("Execution failed", <<>>, id)>>
  ELSE IF outcome.calls # <<>>
    THEN <<AIMessage("", outcome.calls, id)>> \o [k \in DOMAIN outcome.calls |-> ToolMessage(outcome.calls[k], id)]
    ELSE <<AIMessage("answer", <<>>, id)>>

RECURSIVE LastAIToolCalls(_, _)
LastAIToolCalls(msgs, i) ==
  IF i = 0 THEN <<>>
  ELSE IF msgs[i].type = "ai" THEN msgs[i].tool_calls
  ELSE LastAIToolCalls(msgs, i - 1)

\* _extract_task_tools, had it lacked the break: it goes on to earlier AIMessages
RECURSIVE AnyAIToolCalls(_, _)
AnyAIToolCalls(msgs, i) ==
  IF i = 0 THEN <<>>
  ELSE IF msgs[i].type = "ai" /\ msgs[i].tool_calls # <<>> THEN msgs[i].tool_calls
  ELSE AnyAIToolCalls(msgs, i - 1)

_extract_task_tools_no_break(result_messages) == AnyAIToolCalls(result_messages, Len(result_messages))

_extract_task_tools(result_messages) == LastAIToolCalls(result_messages, Len(result_messages))

RECURSIVE ToolResults(_, _)
ToolResults(msgs, i) ==
  IF i = 0 THEN <<>>
  ELSE (IF msgs[i].type = "tool" /\ msgs[i].content # "" THEN <<msgs[i].content>> ELSE <<>>) \o ToolResults(msgs, i - 1)

RECURSIVE LastAIContent(_, _)
LastAIContent(msgs, i) ==
  IF i = 0 THEN ""
  ELSE IF msgs[i].type = "ai" THEN msgs[i].content
  ELSE LastAIContent(msgs, i - 1)

_extract_task_result(result_messages) ==
  LET tool_results == ToolResults(result_messages, Len(result_messages))
      content == LastAIContent(result_messages, Len(result_messages))
  IN IF result_messages = <<>> THEN [kind |-> "default", detail |-> <<>>]
     ELSE IF tool_results # <<>> THEN [kind |-> "tool_results", detail |-> tool_results]
     ELSE IF content # "" THEN [kind |-> "ai_content", detail |-> <<content>>]
     ELSE [kind |-> "default", detail |-> <<>>]

TaskAt(plan, ref) == plan.steps[ref[1]].tasks[ref[2]]

SetTask(plan, ref, t) == [plan EXCEPT !.steps[ref[1]].tasks[ref[2]] = t]

\* used_forbidden_tools, had it looked at the first tool record only
used_forbidden_tools_first(tool_list) == SelectSeq(IF tool_list = <<>> THEN <<>> ELSE <<tool_list[1]>>, LAMBDA n : n \in forbidden_tools)

\* the names of the forbidden flow-control tools among the tool records
used_forbidden_tools(tool_list) == SelectSeq(tool_list, LAMBDA n : n \in forbidden_tools)

\* the four ways worker_node ends: the Task object is written in place, the Command is returned
\* worker_forbidden, had it returned the task message as the no-tools branch does
worker_forbidden_with_messages(plan, ref, tool_list, task_message) ==
  Command(SetTask(plan, ref, [TaskAt(plan, ref) EXCEPT !.execution_result = [kind |-> "forbidden", detail |-> used_forbidden_tools(tool_list)], !.tool_list = tool_list, !.status = FAILED]),
          [messages |-> <<task_message>>], {"planner"}, <<>>)

worker_forbidden(plan, ref, tool_list, task_message) ==
  Command(SetTask(plan, ref, [TaskAt(plan, ref) EXCEPT !.execution_result = [kind |-> "forbidden", detail |-> used_forbidden_tools(tool_list)], !.tool_list = tool_list, !.status = FAILED]),
          NoUpdate, {"planner"}, <<>>)

\* worker_no_tools, had it routed to the reporter
worker_no_tools_to_reporter(plan, ref, tool_list, task_message) ==
  Command(SetTask(plan, ref, [TaskAt(plan, ref) EXCEPT !.execution_result = [kind |-> "no_tools", detail |-> <<>>], !.tool_list = <<>>, !.status = FAILED]),
          [messages |-> <<task_message>>], {"reporter"}, <<>>)

\* worker_no_tools, had it named a node the graph does not have
worker_no_tools_to_unregistered(plan, ref, tool_list, task_message) ==
  Command(SetTask(plan, ref, [TaskAt(plan, ref) EXCEPT !.execution_result = [kind |-> "no_tools", detail |-> <<>>], !.tool_list = <<>>, !.status = FAILED]),
          [messages |-> <<task_message>>], {"worker"}, <<>>)

worker_no_tools(plan, ref, tool_list, task_message) ==
  Command(SetTask(plan, ref, [TaskAt(plan, ref) EXCEPT !.execution_result = [kind |-> "no_tools", detail |-> <<>>], !.tool_list = <<>>, !.status = FAILED]),
          [messages |-> <<task_message>>], {"planner"}, <<>>)

\* the training data are collected only when the sub-agent's messages hold a HumanMessage
worker_completed(plan, ref, result_messages) ==
  Command(SetTask(plan, ref, [TaskAt(plan, ref) EXCEPT !.status = COMPLETED]),
          IF \E k \in DOMAIN result_messages : result_messages[k].type = "human"
            THEN [worker_training_data |-> <<TaskAt(plan, ref).task_id>>, messages |-> result_messages]
            ELSE [messages |-> result_messages],
          {"planner"}, <<>>)

\* worker_exception, had it put the Task back to PENDING for another try
worker_exception_requeueing(plan, ref, task_message) ==
  Command(SetTask(plan, ref, [TaskAt(plan, ref) EXCEPT !.execution_result = [kind |-> "exception", detail |-> <<>>], !.status = PENDING]),
          [messages |-> <<task_message, AIMessage("exception", <<>>, task_message.src)>>], {"planner"}, <<>>)

worker_exception(plan, ref, task_message) ==
  Command(SetTask(plan, ref, [TaskAt(plan, ref) EXCEPT !.execution_result = [kind |-> "exception", detail |-> <<>>], !.status = FAILED]),
          [messages |-> <<task_message, AIMessage("exception", <<>>, task_message.src)>>], {"planner"}, <<>>)

worker_node(input, plan, outcome) ==
  IF "current_task" \notin DOMAIN input THEN Command(plan, NoUpdate, {"planner"}, <<>>)
  ELSE
  LET ref == input.current_task
      task_id == TaskAt(plan, ref).task_id
      task_message == AIMessage("task", <<>>, task_id)
      result_messages == (input.messages \o <<task_message>>) \o agent_node(outcome, task_id)
      tool_list == _extract_task_tools(result_messages)
  IN IF outcome.kind = "setup_exception" THEN Raise(plan)
     ELSE IF outcome.kind = "exception" THEN Invoked(worker_exception(plan, ref, task_message))
     ELSE IF used_forbidden_tools(tool_list) # <<>> THEN Invoked(worker_forbidden(plan, ref, tool_list, task_message))
     ELSE IF tool_list = <<>> THEN Invoked(worker_no_tools(plan, ref, tool_list, task_message))
     ELSE Invoked(worker_completed(plan, ref, result_messages))

\* --------------------------------------------------------------- reporter
\* what a reporter execution can meet: preparing the agent raises, the LLM writes a
\* report, the LLM call fails inside agent_node, or the LLM answers with empty content
ReporterOutcomes == {"setup_exception", "report", "llm_error", "empty"}

\* the content of the last AI message whose content is not blank, "" if there is none
RECURSIVE LastNonBlankAIContent(_, _)
LastNonBlankAIContent(msgs, i) ==
  IF i = 0 THEN ""
  ELSE IF msgs[i].type = "ai" /\ msgs[i].content # "" THEN msgs[i].content
  ELSE LastNonBlankAIContent(msgs, i - 1)

reporter_node(input, plan, outcome) ==
  LET reporter_messages == <<HumanMessage("summary")>>
      answer == IF outcome = "report" THEN <<AIMessage("report", <<>>, 0)>>
                ELSE IF outcome = "llm_error" THEN <<AIMessage("Execution failed", <<>>, 0)>>
                ELSE <<AIMessage("", <<>>, 0)>>
      updated_messages == (input.messages \o reporter_messages) \o answer
      found == LastNonBlankAIContent(updated_messages, Len(updated_messages))
      plan_result_markdown == IF found # "" THEN found ELSE "Sorry, failed to generate a valid report."
  IN IF outcome = "setup_exception" THEN Raise(plan)
     ELSE Invoked(Command(plan, [messages |-> reporter_messages \o updated_messages, plan_result |-> plan_result_markdown,
                                 reporter_training_data |-> [final_answer |-> plan_result_markdown]], {END}, <<>>))

\* ----------------------------------------------------------------- engine
\* state: the authoritative State (key -> value; current_plan is None or a reference)
\* plan_obj: the Plan object that reference designates
\* active: the node executions of the current superstep
\* max_plan_iterations: the configured cap
\* dispatched: the task_ids handed to a worker so far
\* merge_order: the activations of the current superstep in the order they were merged
\* reporter_runs: how many times the reporter node has been executed
\* react_run: of a ReAct run, the configured agent.react.max_iterations, the Reasoning
\*            passes executed, the LLM calls
\*            and tool invocations made so far, and the detours the LLM has taken
\* batch: the BatchRunner: its checkpoint file and the progress of its run over the cases
\* planner_calls: how many LLM calls the planner node has made in this run
VARIABLES state, plan_obj, active, max_plan_iterations, dispatched, merge_order, reporter_runs, react_run, batch, planner_calls

vars == <<state, plan_obj, active, max_plan_iterations, dispatched, merge_order, reporter_runs, react_run, batch, planner_calls>>

\* _build_base_graph: the registered nodes, the entry point and the static edges
Nodes == {"planner", "worker_node", "reporter"}
EntryPoint == "planner"
Edges == {<<"worker_node", "planner">>, <<"reporter", END>>}

\* the node every Send of _execute_worker_tasks names
SendTarget == "worker_node"

\* one execution of a node in the current superstep, on its own input State
NoOutcome == [kind |-> "none", calls |-> <<>>]

Activation(node, input) == [node |-> node, pc |-> "ready", input |-> input, update |-> NoUpdate, goto |-> {}, sends |-> <<>>, made |-> NoOutcome, llm_calls |-> 0, tool_calls |-> 0]

\* the node execution is over: it returned its Command, or it raised
Returned(a, cmd) == [a EXCEPT !.pc = IF cmd.raised THEN "raised" ELSE "returned", !.update = cmd.update, !.goto = cmd.goto, !.sends = cmd.sends, !.llm_calls = cmd.llm_calls, !.tool_calls = cmd.tool_calls]

\* an exception that left a node ends the whole run: nothing is merged or scheduled any more
Aborted == \E i \in DOMAIN active : active[i].pc = "raised"

\* a run of one graph is no batch
NoBatch == [phase |-> "none", checkpoint_file |-> [exists |-> FALSE, completed |-> <<>>], resume_from |-> FALSE, completed |-> <<>>,
            pending_cases |-> <<>>, results |-> <<>>, runs |-> 0]

\* a Plan-and-Execute run has no ReAct bookkeeping
NoReactRun == [max_iterations |-> 0, passes |-> 0, llm_calls |-> 0, tool_calls |-> 0, detours |-> 0]

prepare_initial_state(context) == [query |-> "query", context |-> context, messages |-> <<>>, current_plan |-> None, plan_iterations |-> 0]

Init ==
  /\ state = prepare_initial_state("context")
  /\ plan_obj = EmptyPlan
  /\ active = <<Activation(EntryPoint, state)>>
  /\ max_plan_iterations \in MaxPlanIterationsChoices
  /\ dispatched = {}
  /\ merge_order = <<>>
  /\ reporter_runs = 0
  /\ react_run = NoReactRun
  /\ batch = NoBatch
  /\ planner_calls = 0

RunPlanner(i) ==
  /\ ~Aborted
  /\ active[i].node = "planner" /\ active[i].pc = "ready"
  /\ \E llm \in PlannerOutcomes :
       LET cmd == record_execution(planner_node(active[i].input, plan_obj, max_plan_iterations, llm))
       IN /\ plan_obj' = cmd.plan
          /\ active' = [active EXCEPT ![i] = [Returned(@, cmd) EXCEPT !.made = IF cmd.llm_calls = 0 THEN NoOutcome ELSE [kind |-> IF llm.ok /\ llm.shape # <<>> THEN "plan" ELSE "no_plan", calls |-> <<>>]]]
          /\ planner_calls' = planner_calls + cmd.llm_calls
  /\ UNCHANGED <<state, max_plan_iterations, dispatched, merge_order, reporter_runs, react_run, batch>>

RunWorker(i) ==
  /\ ~Aborted
  /\ active[i].node = "worker_node" /\ active[i].pc = "ready"
  /\ \E outcome \in WorkerOutcomes :
       LET cmd == record_execution(worker_node(active[i].input, plan_obj, outcome))
       IN /\ plan_obj' = cmd.plan
          /\ active' = [active EXCEPT ![i] = [Returned(@, cmd) EXCEPT !.made = outcome]]
  /\ UNCHANGED <<state, max_plan_iterations, dispatched, merge_order, reporter_runs, react_run, batch, planner_calls>>

RunReporter(i) ==
  /\ ~Aborted
  /\ active[i].node = "reporter" /\ active[i].pc = "ready"
  /\ \E outcome \in ReporterOutcomes :
       LET cmd == record_execution(reporter_node(active[i].input, plan_obj, outcome))
       IN /\ plan_obj' = cmd.plan
          /\ active' = [active EXCEPT ![i] = [Returned(@, cmd) EXCEPT !.made = [kind |-> outcome, calls |-> <<>>]]]
  /\ reporter_runs' = reporter_runs + 1
  /\ UNCHANGED <<state, max_plan_iterations, dispatched, merge_order, react_run, batch, planner_calls>>

\* the engine writes a returned update into State, key by key, as _merge_updates does
ApplyUpdate(i) ==
  /\ ~Aborted
  /\ active[i].pc = "returned"
  /\ state' = _merge_updates(state, active[i].update)
  /\ active' = [active EXCEPT ![i].pc = "merged"]
  /\ merge_order' = Append(merge_order, i)
  /\ UNCHANGED <<plan_obj, max_plan_iterations, dispatched, reporter_runs, react_run, batch, planner_calls>>

\* the targets of the next superstep: every goto of a Command and every static edge
Targets(acts) == UNION {acts[i].goto : i \in DOMAIN acts} \cup {e[2] : e \in {e \in Edges : \E i \in DOMAIN acts : acts[i].node = e[1]}}

RECURSIVE AllSends(_, _)
AllSends(acts, i) == IF i = 0 THEN <<>> ELSE AllSends(acts, i - 1) \o acts[i].sends

NextActive(acts, st) ==
  LET targets == Targets(acts)
      named == SelectSeq(<<"planner", "reporter">>, LAMBDA n : n \in targets)
      sends == AllSends(acts, Len(acts))
  IN [k \in DOMAIN named |-> Activation(named[k], st)] \o [b \in DOMAIN sends |-> Activation(SendTarget, sends[b])]

\* a target that names neither a registered node nor the terminal marker is fatal
Rejected(acts) == [i \in DOMAIN acts |-> [acts[i] EXCEPT !.pc = "raised"]]

\* join: when every activation of the superstep has been merged the next superstep starts
NextSuperstep ==
  /\ active # <<>>
  /\ \A i \in DOMAIN active : active[i].pc = "merged"
  /\ active' = IF Targets(active) \subseteq Nodes \cup {END} /\ SendTarget \in Nodes
                 THEN NextActive(active, state)
                 ELSE Rejected(active)
  /\ dispatched' = dispatched \cup {plan_obj.steps[a.input.current_task[1]].tasks[a.input.current_task[2]].task_id : a \in {active'[i] : i \in {j \in DOMAIN active' : active'[j].node = "worker_node"}}}
  /\ merge_order' = <<>>
  /\ UNCHANGED <<state, plan_obj, max_plan_iterations, reporter_runs, react_run, batch, planner_calls>>

Next ==
  \/ \E i \in DOMAIN active : RunPlanner(i)
  \/ \E i \in DOMAIN active : RunWorker(i)
  \/ \E i \in DOMAIN active : RunReporter(i)
  \/ \E i \in DOMAIN active : ApplyUpdate(i)
  \/ NextSuperstep

Spec == Init /\ [][Next]_vars

\* the engine keeps running whatever is ready: a run does not stop while a step is enabled
FairSpec == Spec /\ WF_vars(Next)

\* ------------------------------------------------------ reading the state
TaskRefs(plan) == UNION {{<<s, j>> : j \in DOMAIN plan.steps[s].tasks} : s \in DOMAIN plan.steps}

Terminal(t) == t.status \in {COMPLETED, FAILED}

HasPlan == plan_obj.steps # <<>>

Workers == {i \in DOMAIN active : active[i].node = "worker_node"}

Planners == {i \in DOMAIN active : active[i].node = "planner"}

\* activation i runs its node in this step
Ran(i, node) ==
  /\ i \in DOMAIN active /\ active[i].node = node /\ active[i].pc = "ready"
  /\ i \in DOMAIN active' /\ active'[i].pc = "returned"

\* activation i has run its node and returned a Command
Done(i) == active[i].pc \in {"returned", "merged"}

\* the engine applies the update of activation i in this step
Merged(i) ==
  /\ i \in DOMAIN active /\ active[i].pc = "returned"
  /\ i \in DOMAIN active' /\ active'[i].pc = "merged"

CurrentStep == plan_obj.steps[plan_obj.current_step_index + 1]

AllFailed(step) == \A j \in DOMAIN step.tasks : step.tasks[j].status = FAILED

\* ------------------------------------------------------------------ claims

\* C1: with a plan, 0 <= current_step_index <= len(steps); the cursor changes only by +1,
\* exactly when the planner marks the step under the cursor COMPLETED, and never decreases.
C1_CursorStep ==
  /\ HasPlan => /\ plan_obj'.current_step_index >= plan_obj.current_step_index
                /\ plan_obj'.current_step_index # plan_obj.current_step_index =>
                     /\ plan_obj'.current_step_index = plan_obj.current_step_index + 1
                     /\ \E i \in DOMAIN active : Ran(i, "planner")
                     /\ plan_obj.steps[plan_obj.current_step_index + 1].status # COMPLETED
                     /\ plan_obj'.steps[plan_obj.current_step_index + 1].status = COMPLETED
                /\ \A s \in DOMAIN plan_obj.steps :
                     (plan_obj.steps[s].status # COMPLETED /\ plan_obj'.steps[s].status = COMPLETED) =>
                        /\ s = plan_obj.current_step_index + 1
                        /\ plan_obj'.current_step_index = plan_obj.current_step_index + 1

C1_CursorInBounds ==
  /\ [](plan_obj.current_step_index >= 0 /\ plan_obj.current_step_index <= Len(plan_obj.steps))
  /\ [][C1_CursorStep]_vars

C1_Witness == HasPlan /\ Len(plan_obj.steps) >= 2 /\ plan_obj.current_step_index = Len(plan_obj.steps)

\* C2: a Step is COMPLETED only if one of its Tasks is not FAILED; a planner pass that
\* finds every Task of the current step FAILED routes to reporter and leaves the plan as it is.
C2_AllFailedStep(i) ==
  (Ran(i, "planner") /\ _has_pending_step(plan_obj) /\ AllFailed(CurrentStep)) =>
     /\ active'[i].goto = {"reporter"}
     /\ active'[i].sends = <<>>
     /\ plan_obj' = plan_obj

C2_CompletedOnlyIfNotAllFailed ==
  /\ [](\A s \in DOMAIN plan_obj.steps : plan_obj.steps[s].status = COMPLETED => ~AllFailed(plan_obj.steps[s]))
  /\ [][\A i \in DOMAIN active : C2_AllFailedStep(i)]_vars

C2_Witness ==
  /\ \E i \in DOMAIN active : active[i].node = "reporter"
  /\ _has_pending_step(plan_obj)
  /\ Len(CurrentStep.tasks) >= 2
  /\ AllFailed(CurrentStep)
  /\ CurrentStep.status # COMPLETED

\* C3: a fan-out dispatches exactly one worker branch per Task that is PENDING at that
\* moment and marks it EXECUTING, the dispatched task_ids are distinct, and after the join
\* every dispatched Task is COMPLETED or FAILED.
PendingRefs(plan) == {r \in TaskRefs(plan) : r[1] = plan.current_step_index + 1 /\ TaskAt(plan, r).status = PENDING}

C3_FanOut(i) ==
  (Ran(i, "planner") /\ active'[i].sends # <<>>) =>
     LET sends == active'[i].sends
     IN /\ Len(sends) = Cardinality(PendingRefs(plan_obj))
        /\ {sends[b].current_task : b \in DOMAIN sends} = PendingRefs(plan_obj)
        /\ \A r \in PendingRefs(plan_obj) : TaskAt(plan_obj', r).status = EXECUTING
        /\ \A r \in TaskRefs(plan_obj) \ PendingRefs(plan_obj) : TaskAt(plan_obj', r) = TaskAt(plan_obj, r)

C3_Join ==
  /\ \A i, k \in Workers : TaskAt(plan_obj, active[i].input.current_task).task_id = TaskAt(plan_obj, active[k].input.current_task).task_id => i = k
  /\ Workers = {} => \A r \in TaskRefs(plan_obj) : TaskAt(plan_obj, r).task_id \in dispatched => Terminal(TaskAt(plan_obj, r))
  /\ \A r \in TaskRefs(plan_obj) : TaskAt(plan_obj, r).status = EXECUTING =>
        \/ \E i \in Workers : active[i].pc \in {"ready", "raised"} /\ active[i].input.current_task = r
        \/ \E i \in Planners : \E b \in DOMAIN active[i].sends : active[i].sends[b].current_task = r

C3_OneBranchPerPendingTask == [](C3_Join) /\ [][\A i \in DOMAIN active : C3_FanOut(i)]_vars

C3_Witness ==
  /\ Workers = {} /\ Cardinality(dispatched) >= 2
  /\ \E r1, r2 \in TaskRefs(plan_obj) : r1[1] = r2[1] /\ TaskAt(plan_obj, r1).status = COMPLETED /\ TaskAt(plan_obj, r2).status = FAILED

\* C4: after a fan-out the planner is not invoked before every worker branch of it has
\* returned and been merged, in whatever order they finish, and is then invoked once.
PlannersOf(acts) == {i \in DOMAIN acts : acts[i].node = "planner"}

C4_JoinStep ==
  /\ \A i \in DOMAIN active : Ran(i, "planner") => Workers = {}
  /\ (Workers # {} /\ PlannersOf(active') # {}) =>
        /\ \A k \in DOMAIN active : active[k].pc = "merged"
        /\ Len(active') = 1

C4_StrictJoin == [](Workers # {} => Planners = {}) /\ [](Cardinality(Planners) <= 1) /\ [][C4_JoinStep]_vars

C4_Witness ==
  /\ \E i \in Planners : active[i].pc = "ready"
  /\ HasPlan /\ _has_pending_step(plan_obj)
  /\ Len(CurrentStep.tasks) >= 2
  /\ \A j \in DOMAIN CurrentStep.tasks : Terminal(CurrentStep.tasks[j])

\* C5: steps are processed in declaration order: a Task leaves PENDING only after every
\* earlier step is COMPLETED with all its Tasks terminal, and only Tasks of the step at
\* current_step_index are EXECUTING.
C5_StepsInOrder ==
  \A r \in TaskRefs(plan_obj) :
     /\ TaskAt(plan_obj, r).status # PENDING =>
          \A s \in 1..(r[1] - 1) :
             /\ plan_obj.steps[s].status = COMPLETED
             /\ \A j \in DOMAIN plan_obj.steps[s].tasks : Terminal(plan_obj.steps[s].tasks[j])
     /\ TaskAt(plan_obj, r).status = EXECUTING => r[1] = plan_obj.current_step_index + 1

C5_Witness == \E r \in TaskRefs(plan_obj) : r[1] = 2 /\ TaskAt(plan_obj, r).status = EXECUTING

\* the State a reader sees: State with the Plan object behind current_plan
AuthState == [state EXCEPT !.current_plan = IF @ = None THEN EmptyPlan ELSE plan_obj]

\* C6: during a fan-out the authoritative State changes only when the engine applies the
\* update a worker branch returned; a branch's own writes stay in its private copy.
C6_BranchWritesStayPrivate == [][(Workers # {} /\ AuthState' # AuthState) => \E i \in Workers : Merged(i)]_vars

\* ---- _merge_updates on its own: State and two returned updates drawn from small dicts
MergeKeys == {"messages", "plan_iterations", "plan_result"}

MergeDicts ==
  {[k \in ks |-> [messages |-> m, plan_iterations |-> n, plan_result |-> "report"][k]] :
     m \in {<<>>, <<HumanMessage("query")>>, <<HumanMessage("query"), AIMessage("task", <<>>, 1)>>},
     n \in {0, 1}, ks \in SUBSET MergeKeys}

InitMerge ==
  /\ state \in MergeDicts
  /\ plan_obj = EmptyPlan
  /\ \E u1, u2 \in MergeDicts :
       active = <<[Activation("reporter", NoUpdate) EXCEPT !.pc = "returned", !.update = u1],
                  [Activation("reporter", NoUpdate) EXCEPT !.pc = "returned", !.update = u2]>>
  /\ max_plan_iterations = DefaultMaxPlanIterations
  /\ dispatched = {}
  /\ merge_order = <<>>
  /\ reporter_runs = 0
  /\ react_run = NoReactRun
  /\ batch = NoBatch
  /\ planner_calls = 0

NextMerge == \E i \in DOMAIN active : ApplyUpdate(i)

SpecMerge == InitMerge /\ [][NextMerge]_vars

\* C7: applying a returned update overwrites exactly the update's keys with the update's
\* values and leaves every other key as it was; of two writers of a key the later one wins.
C7_MergeStep ==
  \A i \in DOMAIN active : Merged(i) =>
     /\ DOMAIN state' = (DOMAIN state) \cup (DOMAIN active[i].update)
     /\ \A k \in DOMAIN state' :
          IF k \in DOMAIN active[i].update THEN state'[k] = active[i].update[k] ELSE state'[k] = state[k]

C7_LastWriter ==
  \A k \in DOMAIN state :
     LET writers == SelectSeq(merge_order, LAMBDA i : k \in DOMAIN active[i].update)
     IN writers # <<>> => state[k] = active[writers[Len(writers)]].update[k]

C7_FlatOverwrite == [](C7_LastWriter) /\ [][C7_MergeStep]_vars

C7_Witness ==
  /\ Len(merge_order) = 2
  /\ "messages" \in DOMAIN active[1].update /\ "messages" \in DOMAIN active[2].update
  /\ active[1].update.messages # <<>> /\ active[2].update.messages # <<>>
  /\ active[merge_order[1]].update.messages # active[merge_order[2]].update.messages
  /\ state.messages = active[merge_order[2]].update.messages
  /\ "plan_result" \in DOMAIN state
  /\ "plan_result" \notin DOMAIN active[1].update /\ "plan_result" \notin DOMAIN active[2].update

\* C8: a Worker whose sub-agent made zero tool calls (its LLM call may have failed and
\* been turned into a plain message) ends its Task FAILED.
C8_NoToolCallsFails ==
  \A i \in Workers :
     (Done(i) /\ active[i].made.calls = <<>>) => TaskAt(plan_obj, active[i].input.current_task).status = FAILED

C8_Witness ==
  \E i \in Workers :
     /\ Done(i) /\ active[i].made.kind = "llm_error"
     /\ \E m \in DOMAIN active[i].input.messages : active[i].input.messages[m].tool_calls # <<>>
     /\ TaskAt(plan_obj, active[i].input.current_task).status = FAILED
     /\ TaskAt(plan_obj, active[i].input.current_task).execution_result.kind = "no_tools"

\* C9: a Worker whose sub-agent's tool calls include a forbidden flow-control tool, even
\* next to allowed tools, ends its Task FAILED with an execution_result that names the
\* forbidden tools, a result unlike those of the no-tools and the exception failures.
C9_ForbiddenToolFails ==
  \A i \in Workers :
     (Done(i) /\ \E c \in DOMAIN active[i].made.calls : active[i].made.calls[c] \in forbidden_tools) =>
        LET t == TaskAt(plan_obj, active[i].input.current_task)
        IN /\ t.status = FAILED
           /\ t.execution_result.kind = "forbidden"
           /\ t.execution_result.detail = SelectSeq(active[i].made.calls, LAMBDA n : n \in forbidden_tools)
           /\ t.execution_result.kind \notin {"no_tools", "exception"}

C9_Witness ==
  \E i \in Workers :
     /\ Done(i) /\ active[i].made.calls = <<"query_poi", "handoff_to_reporter">>
     /\ TaskAt(plan_obj, active[i].input.current_task).status = FAILED
     /\ TaskAt(plan_obj, active[i].input.current_task).execution_result = [kind |-> "forbidden", detail |-> <<"handoff_to_reporter">>]

\* a worker branch that failed its Task for forbidden tool use
ForbiddenBranch(i) ==
  /\ i \in Workers /\ Done(i)
  /\ \E c \in DOMAIN active[i].made.calls : active[i].made.calls[c] \in forbidden_tools

\* C10 as stated: once a forbidden-tool branch is merged, every key of State is what it
\* was when the branch was dispatched.
C10_StateAsAtDispatch ==
  \A i \in Workers : (ForbiddenBranch(i) /\ active[i].pc = "merged") => \A k \in DOMAIN state : state[k] = active[i].input[k]

\* C10 amended: a forbidden-tool branch returns an empty update, and merging it changes no key of State.
C10_EmptyUpdate ==
  /\ [](\A i \in Workers : ForbiddenBranch(i) => active[i].update = NoUpdate)
  /\ [][\A i \in DOMAIN active : (ForbiddenBranch(i) /\ Merged(i)) => state' = state]_vars

C10_Witness == \E i \in Workers : ForbiddenBranch(i) /\ active[i].pc = "merged" /\ state.messages # <<>>

\* C11 as stated: a Task that its Worker classified COMPLETED holds, in tool_list, one
\* record per tool call the sub-agent made and, in execution_result, the result
\* extracted from the sub-agent's messages.
C11_CompletedTaskRecords ==
  \A i \in Workers :
     (Done(i) /\ TaskAt(plan_obj, active[i].input.current_task).status = COMPLETED) =>
        LET t == TaskAt(plan_obj, active[i].input.current_task)
        IN /\ t.tool_list = active[i].made.calls
           /\ t.execution_result = _extract_task_result(active[i].update.messages)

\* C12 as stated: an exception raised while a Worker executes its Task, be it while the
\* sub-agent is prepared or while it runs, leaves the Task FAILED with the exception
\* text as execution_result, and the worker returns to the planner.
C12_ExceptionFailsTask ==
  \A i \in Workers :
     (active[i].pc # "ready" /\ active[i].made.kind \in {"setup_exception", "exception"}) =>
        /\ TaskAt(plan_obj, active[i].input.current_task).status = FAILED
        /\ TaskAt(plan_obj, active[i].input.current_task).execution_result.kind = "exception"
        /\ Done(i) /\ active[i].goto = {"planner"}

\* C13 as stated: every execution of the worker node ends with a Command that routes to
\* the planner and to nothing else, whatever happened to the Task; it never ends the run.
C13_WorkerAlwaysToPlanner ==
  \A i \in Workers :
     active[i].pc # "ready" => (Done(i) /\ active[i].goto = {"planner"} /\ active[i].sends = <<>>)

\* C14: a Task's status moves only PENDING -> EXECUTING (by the planner's fan-out) and
\* EXECUTING -> COMPLETED or FAILED (by the Worker executing that very Task); a terminal
\* status is never changed again, and a fresh plan holds PENDING Tasks only.
C14_StatusStep ==
  /\ \A r \in TaskRefs(plan_obj) :
        LET a == TaskAt(plan_obj, r).status
            b == TaskAt(plan_obj', r).status
        IN a # b =>
             \/ a = PENDING /\ b = EXECUTING /\ \E i \in Planners : Ran(i, "planner")
             \/ a = EXECUTING /\ b \in {COMPLETED, FAILED}
                   /\ \E i \in Workers : Ran(i, "worker_node") /\ active[i].input.current_task = r
  /\ ~HasPlan => \A r \in TaskRefs(plan_obj') : TaskAt(plan_obj', r).status = PENDING

C14_TaskLifecycle == [][C14_StatusStep]_vars

C14_Witness ==
  /\ \E r \in TaskRefs(plan_obj) : r[1] = 1 /\ TaskAt(plan_obj, r).status = COMPLETED
  /\ \E r \in TaskRefs(plan_obj) : r[1] = 2 /\ TaskAt(plan_obj, r).status = FAILED
  /\ \E i \in Planners : active[i].pc = "ready"

\* C15: plan_iterations is 0 in the prepared initial State, is 1 right after the update
\* of the first successful planning call is applied, and never exceeds the configured
\* max_plan_iterations.
C15_FirstPlanStep ==
  \A i \in Planners :
     (Merged(i) /\ "current_plan" \in DOMAIN active[i].update /\ state.current_plan = None) =>
        (state.plan_iterations = 0 /\ state'.plan_iterations = 1)

C15_PlanIterationsBounded ==
  /\ state.plan_iterations = 0
  /\ [](state.plan_iterations <= max_plan_iterations)
  /\ [][C15_FirstPlanStep]_vars

C15_Witness == state.current_plan = PlanRef /\ state.plan_iterations = 1 /\ max_plan_iterations = 1

\* a planner execution that generated the plan or advanced it to the next step
PlanningPass(i) ==
  /\ Ran(i, "planner")
  /\ \/ active'[i].made.kind = "plan"
     \/ plan_obj'.current_step_index # plan_obj.current_step_index

\* C16 as stated: every planning pass, one that generates the plan or one that advances
\* it to the next step, adds exactly 1 to plan_iterations, and nothing else changes it.
C16_PassStep ==
  /\ \A i \in Planners : PlanningPass(i) =>
        /\ "plan_iterations" \in DOMAIN active'[i].update
        /\ active'[i].update.plan_iterations = active[i].input.plan_iterations + 1
  /\ state'.plan_iterations # state.plan_iterations =>
        /\ state'.plan_iterations = state.plan_iterations + 1
        /\ \E i \in Planners : Merged(i)

C16_OnePerPlanningPass == [][C16_PassStep]_vars

\* C17: a planner invoked with plan_iterations >= max_plan_iterations routes to the
\* reporter whatever remains of the plan: it makes no LLM call, dispatches no worker,
\* returns no update and leaves the Plan, its Steps and its Tasks as they were.
C17_CapStep ==
  \A i \in Planners :
     (Ran(i, "planner") /\ active[i].input.plan_iterations >= max_plan_iterations) =>
        /\ active'[i].goto = {"reporter"} /\ active'[i].sends = <<>>
        /\ active'[i].update = NoUpdate /\ active'[i].llm_calls = 0
        /\ plan_obj' = plan_obj

C17_CapRoutesToReporter == [][C17_CapStep]_vars

C17_Witness ==
  /\ HasPlan /\ PendingRefs(plan_obj) # {}
  /\ \E i \in Planners : /\ Done(i) /\ active[i].input.plan_iterations >= max_plan_iterations
                          /\ active[i].input.current_plan = PlanRef /\ active[i].goto = {"reporter"}

\* C18: when the initial planning yields no plan with at least one step (the LLM call
\* fails, nothing parses, or the plan has no steps), the planner returns, without raising,
\* a Command to the reporter with no update; current_plan stays empty, plan_iterations
\* stays 0, and no Task is created or dispatched in that run.
NoPlanYet == state.current_plan = None /\ \A i \in Planners : active[i].made.kind # "plan"

C18_NoPlanStep ==
  /\ \A i \in Planners : (Ran(i, "planner") /\ active'[i].made.kind = "no_plan") =>
        /\ active'[i].goto = {"reporter"} /\ active'[i].sends = <<>>
        /\ active'[i].update = NoUpdate /\ plan_obj' = EmptyPlan
  /\ ((\E i \in Planners : active[i].made.kind = "no_plan") /\ active' # active /\ \A i \in DOMAIN active : active[i].pc = "merged") =>
        active' = <<Activation("reporter", state)>>

C18_PlanningFailure ==
  /\ [](\A i \in Planners : active[i].pc # "raised")
  /\ [](NoPlanYet => (plan_obj = EmptyPlan /\ state.plan_iterations = 0 /\ dispatched = {} /\ Workers = {}))
  /\ [][C18_NoPlanStep]_vars

C18_Witness ==
  /\ active = <<>> /\ reporter_runs = 1 /\ max_plan_iterations > 0
  /\ state.current_plan = None /\ state.plan_iterations = 0 /\ plan_obj = EmptyPlan

\* the Commands of the worker and of the reporter, and the planner's fan-out
WorkerReporterSteps ==
  /\ \A i \in Workers : Ran(i, "worker_node") => (active'[i].goto = {"planner"} /\ active'[i].sends = <<>>)
  /\ \A i \in DOMAIN active : Ran(i, "reporter") => (active'[i].goto = {END} /\ active'[i].sends = <<>>)

ToWorkers(i) ==
  /\ active'[i].sends # <<>> /\ active'[i].goto = {}
  /\ HasPlan /\ _has_pending_step(plan_obj) /\ _has_pending_worker_tasks(CurrentStep)

AllStepsDone(i) == active[i].input.current_plan = PlanRef /\ plan_obj.current_step_index = Len(plan_obj.steps)

CapHit(i) == active[i].input.plan_iterations >= max_plan_iterations

StepAllFailed(i) ==
  /\ active[i].input.current_plan = PlanRef /\ _has_pending_step(plan_obj)
  /\ AllFailed(CurrentStep)

StepJustCompleted ==
  /\ HasPlan /\ _has_pending_step(plan_obj)
  /\ plan_obj'.current_step_index = plan_obj.current_step_index + 1
  /\ plan_obj'.steps[plan_obj.current_step_index + 1].status = COMPLETED

\* C19 as stated: every transition is planner -> worker (fan-out, only with PENDING tasks
\* in the current step), planner -> reporter (only when all steps are done, plan
\* generation failed or the cap is hit), planner -> planner (only when the plan was just
\* generated), worker -> planner, or reporter -> terminal.
C19_StatedStep ==
  /\ WorkerReporterSteps
  /\ \A i \in Planners : Ran(i, "planner") =>
        \/ ToWorkers(i)
        \/ /\ active'[i].goto = {"reporter"} /\ active'[i].sends = <<>>
           /\ (AllStepsDone(i) \/ active'[i].made.kind = "no_plan" \/ CapHit(i))
        \/ /\ active'[i].goto = {"planner"} /\ active'[i].sends = <<>>
           /\ active'[i].made.kind = "plan"

C19_TransitionsAsStated == [][C19_StatedStep]_vars

\* C19 amended: as stated, but planner -> reporter also happens when every task of the
\* current step FAILED, and planner -> planner also happens when the planner has just
\* marked the current step COMPLETED and advanced the cursor.
C19_Step ==
  /\ WorkerReporterSteps
  /\ \A i \in Planners : Ran(i, "planner") =>
        \/ ToWorkers(i)
        \/ /\ active'[i].goto = {"reporter"} /\ active'[i].sends = <<>>
           /\ (AllStepsDone(i) \/ active'[i].made.kind = "no_plan" \/ CapHit(i) \/ StepAllFailed(i))
        \/ /\ active'[i].goto = {"planner"} /\ active'[i].sends = <<>>
           /\ (active'[i].made.kind = "plan" \/ StepJustCompleted)
  /\ (active' # active /\ active # <<>> /\ \A i \in DOMAIN active : active[i].pc = "merged") =>
        \A k \in DOMAIN active' :
           \/ active'[k].node = "planner" /\ (Workers # {} \/ \E i \in Planners : "planner" \in active[i].goto)
           \/ active'[k].node = "worker_node" /\ Planners # {}
           \/ active'[k].node = "reporter" /\ \E i \in Planners : "reporter" \in active[i].goto

C19_Transitions == [][C19_Step]_vars

C19_Witness ==
  /\ HasPlan /\ plan_obj.current_step_index = 1 /\ plan_obj.steps[1].status = COMPLETED
  /\ \E i \in Planners : active[i].pc = "merged" /\ active[i].goto = {"planner"} /\ active[i].made.kind = "none"

\* the run is over: the reporter has routed to the terminal and nothing is scheduled
Ended == active = <<>>

\* C20: a run with a generated plan of n >= 1 steps in which no step has all its tasks
\* FAILED, and in which the cap is not hit, comes to an end (unless an exception aborts
\* it), and at its end current_step_index = n, every Step is COMPLETED, the reporter has
\* run exactly once and the final answer is not empty.
C20_EndState ==
  (/\ Ended /\ state.current_plan = PlanRef /\ HasPlan
   /\ state.plan_iterations < max_plan_iterations
   /\ \A s \in DOMAIN plan_obj.steps : ~AllFailed(plan_obj.steps[s])) =>
     /\ plan_obj.current_step_index = Len(plan_obj.steps)
     /\ \A s \in DOMAIN plan_obj.steps : plan_obj.steps[s].status = COMPLETED
     /\ reporter_runs = 1
     /\ "plan_result" \in DOMAIN state /\ state.plan_result # ""

Reporters == {i \in DOMAIN active : active[i].node = "reporter"}

\* C21 as stated: the answer of the reporter is the content of the assistant message its
\* one synthesis call produced, or the fixed failure string when that call produced no
\* usable assistant message; it is never an earlier assistant message of the history and
\* never empty; the reporter routes to the terminal marker.
C21_AnswerFromSynthesisCall ==
  \A i \in Reporters : Done(i) =>
     /\ active[i].llm_calls = 1 /\ active[i].goto = {END}
     /\ active[i].update.plan_result # ""
     /\ active[i].update.plan_result =
          (IF active[i].made.kind = "report" THEN "report"
           ELSE IF active[i].made.kind = "llm_error" THEN "Execution failed"
           ELSE "Sorry, failed to generate a valid report.")

\* ================================================================== ReAct
\* the cap the ReAct nodes use, and the agent.react.max_iterations setting
MAX_REACT_ITERATIONS == 15
DefaultReactMaxIterations == 15

\* values of agent.react.max_iterations a run is configured with
ReactMaxIterationsChoices == {2, DefaultReactMaxIterations}

\* how many times in one run the LLM or a tool strays from the plain cycle
\* "call a registered tool, the tool returns"
MaxReactDetours == 1

\* the names ToolRegistry.get_all() knows
KnownTools == {"query_poi"}

\* state.get(key, default)
Get(st, key, default) == IF key \in DOMAIN st THEN st[key] ELSE default

\* what the reasoning LLM can answer: content that is a JSON object (bare or in a fenced
\* block), text that is no JSON (with or without a brace-delimited part), blank text,
\* JSON that is not an object, content that is not text
JsonObjects ==
  {[thought |-> "thought", action |-> "finish", final_answer |-> "answer"],
   [thought |-> "thought", final_answer |-> "answer"],
   [thought |-> "thought", action |-> "finish"],
   [thought |-> "thought", action |-> "call_tool", tool_name |-> "query_poi", tool_args |-> "args"],
   [thought |-> "thought", action |-> "call_tool", tool_name |-> "no_such_tool", tool_args |-> "args"],
   [thought |-> "thought", action |-> "call_tool"],
   [thought |-> "thought", action |-> "think"]}

ReasoningContents ==
  {[form |-> "json_object", text |-> "", match |-> "", object |-> o] : o \in JsonObjects}
  \cup {[form |-> "text", text |-> "raw", match |-> "", object |-> NoUpdate],
        [form |-> "text", text |-> "raw {x}", match |-> "{x}", object |-> NoUpdate],
        [form |-> "text", text |-> "", match |-> "", object |-> NoUpdate],
        [form |-> "json_list", text |-> "[]", match |-> "", object |-> NoUpdate],
        [form |-> "nontext", text |-> "", match |-> "", object |-> NoUpdate]}

\* outcomes of the reasoning LLM call: getting the LLM or the prompt, or the call, raises;
\* or the LLM responds
ReasoningOutcomes ==
  {[kind |-> "llm_error", content |-> [form |-> "none", text |-> "", match |-> "", object |-> NoUpdate]]}
  \cup {[kind |-> "response", content |-> c] : c \in ReasoningContents}

\* outcomes of tool.invoke
ToolOutcomes == {"returns", "raises"}

\* the result of _parse_react_response: a dict, a value that is no dict, or an exception
_parse_react_response(content) ==
  IF content.form = "nontext" THEN [kind |-> "raise", value |-> NoUpdate]
  ELSE IF content.form = "json_object" THEN [kind |-> "dict", value |-> content.object]
  ELSE IF content.form = "json_list" THEN [kind |-> "list", value |-> NoUpdate]
  ELSE [kind |-> "dict",
        value |-> [thought |-> "Unable to parse response, ending with available information.",
                   action |-> "finish",
                   final_answer |-> IF content.match # "" THEN content.match ELSE content.text]]

\* reasoning_node at the cap, had it not set react_finish
reasoning_cap_without_finish(st) ==
  Command(EmptyPlan, [plan_result |-> "Reached maximum iterations. Please try with a simpler query."], {"action"}, <<>>)

\* reasoning_node at the cap: no LLM call, finish is forced
reasoning_cap(st) ==
  Command(EmptyPlan, [react_finish |-> TRUE, plan_result |-> "Reached maximum iterations. Please try with a simpler query."], {"action"}, <<>>)

\* reasoning_node's except branch, had it not set react_finish
reasoning_error_without_finish(st) ==
  Command(EmptyPlan, [plan_result |-> "Error during reasoning"], {"action"}, <<>>)

\* reasoning_node's except branch
reasoning_error(st) ==
  Command(EmptyPlan, [react_finish |-> TRUE, plan_result |-> "Error during reasoning"], {"action"}, <<>>)

\* reasoning_node after parsing, had it left plan_result alone on finish
reasoning_update_without_answer(st, parsed) ==
  LET action == Get(parsed, "action", "finish")
      base == [messages |-> Append(Get(st, "messages", <<>>), AIMessage("thought", <<>>, 0)),
               react_iterations |-> Get(st, "react_iterations", 0) + 1,
               react_thoughts |-> Append(Get(st, "react_thoughts", <<>>), Get(parsed, "thought", "")),
               react_actions |-> Append(Get(st, "react_actions", <<>>), action),
               react_current_action |-> action,
               react_current_tool_name |-> Get(parsed, "tool_name", ""),
               react_current_tool_args |-> Get(parsed, "tool_args", "")]
  IN Command(EmptyPlan,
             IF action = "finish" THEN DictUpdate(base, [react_finish |-> TRUE]) ELSE base,
             {"action"}, <<>>)

\* reasoning_node after parsing, had it not counted the pass
reasoning_update_without_count(st, parsed) ==
  LET action == Get(parsed, "action", "finish")
      base == [messages |-> Append(Get(st, "messages", <<>>), AIMessage("thought", <<>>, 0)),
               react_iterations |-> Get(st, "react_iterations", 0),
               react_thoughts |-> Append(Get(st, "react_thoughts", <<>>), Get(parsed, "thought", "")),
               react_actions |-> Append(Get(st, "react_actions", <<>>), action),
               react_current_action |-> action,
               react_current_tool_name |-> Get(parsed, "tool_name", ""),
               react_current_tool_args |-> Get(parsed, "tool_args", "")]
  IN Command(EmptyPlan,
             IF action = "finish"
               THEN DictUpdate(base, [react_finish |-> TRUE, plan_result |-> Get(parsed, "final_answer", "")])
               ELSE base,
             {"action"}, <<>>)

\* reasoning_node after parsing: the update of a reasoning pass
reasoning_update(st, parsed) ==
  LET action == Get(parsed, "action", "finish")
      base == [messages |-> Append(Get(st, "messages", <<>>), AIMessage("thought", <<>>, 0)),
               react_iterations |-> Get(st, "react_iterations", 0) + 1,
               react_thoughts |-> Append(Get(st, "react_thoughts", <<>>), Get(parsed, "thought", "")),
               react_actions |-> Append(Get(st, "react_actions", <<>>), action),
               react_current_action |-> action,
               react_current_tool_name |-> Get(parsed, "tool_name", ""),
               react_current_tool_args |-> Get(parsed, "tool_args", "")]
  IN Command(EmptyPlan,
             IF action = "finish"
               THEN DictUpdate(base, [react_finish |-> TRUE, plan_result |-> Get(parsed, "final_answer", "")])
               ELSE base,
             {"action"}, <<>>)

reasoning_node(st, outcome) ==
  IF Get(st, "react_iterations", 0) >= MAX_REACT_ITERATIONS THEN reasoning_cap(st)
  ELSE IF outcome.kind = "llm_error" THEN Invoked(reasoning_error(st))
  ELSE LET parsed == _parse_react_response(outcome.content)
       IN IF parsed.kind # "dict" THEN Invoked(reasoning_error(st))
          ELSE Invoked(reasoning_update(st, parsed.value))

\* action_node with an observation, had it ended the run there
observe_and_end(st, observation) ==
  Command(EmptyPlan, [messages |-> Append(Get(st, "messages", <<>>), HumanMessage(observation))], {END}, <<>>)

\* action_node with an observation: it is appended to the messages, reasoning is next
observe(st, observation) ==
  Command(EmptyPlan, [messages |-> Append(Get(st, "messages", <<>>), HumanMessage(observation))], {"reasoning"}, <<>>)

\* action_node, had it looked at the stored action only and not at react_finish
action_node_ignoring_finish(st, tool_outcome) ==
  LET action == Get(st, "react_current_action", "finish")
      tool_name == Get(st, "react_current_tool_name", "")
  IN IF action = "finish" THEN Command(EmptyPlan, NoUpdate, {END}, <<>>)
     ELSE IF action = "call_tool" /\ tool_name # ""
       THEN IF tool_name \notin KnownTools THEN observe(st, "Observation: Error: Unknown tool")
            ELSE IF tool_outcome = "raises" THEN ToolInvoked(observe(st, "Observation: Tool execution error"))
            ELSE ToolInvoked(observe(st, "Observation: result"))
     ELSE Command(EmptyPlan, NoUpdate, {"reasoning"}, <<>>)

action_node(st, tool_outcome) ==
  LET action == Get(st, "react_current_action", "finish")
      tool_name == Get(st, "react_current_tool_name", "")
  IN IF action = "finish" \/ Get(st, "react_finish", FALSE) THEN Command(EmptyPlan, NoUpdate, {END}, <<>>)
     ELSE IF action = "call_tool" /\ tool_name # ""
       THEN IF tool_name \notin KnownTools THEN observe(st, "Observation: Error: Unknown tool")
            ELSE IF tool_outcome = "raises" THEN ToolInvoked(observe(st, "Observation: Tool execution error"))
            ELSE ToolInvoked(observe(st, "Observation: result"))
     ELSE Command(EmptyPlan, NoUpdate, {"reasoning"}, <<>>)

should_continue(st) ==
  IF Get(st, "react_finish", FALSE) THEN "end"
  ELSE IF Get(st, "react_iterations", 0) >= MAX_REACT_ITERATIONS THEN "end"
  ELSE IF Get(st, "react_current_action", "") = "finish" THEN "end"
  ELSE "continue"

\* _build_react_graph: nodes, entry point, the static edge and the conditional edges
ReactNodes == {"reasoning", "action"}
ReactEntryPoint == "reasoning"
ReactEdges == {<<"reasoning", "action">>}
ReactConditionalEdges == [continue |-> "reasoning", end |-> END]

react_prepare_initial_state(context) ==
  [query |-> "query", context |-> context, messages |-> <<>>, react_iterations |-> 0,
   react_thoughts |-> <<>>, react_actions |-> <<>>, react_finish |-> FALSE, plan_result |-> None]

InitReact ==
  /\ state = react_prepare_initial_state("context")
  /\ plan_obj = EmptyPlan
  /\ active = <<Activation(ReactEntryPoint, state)>>
  /\ max_plan_iterations = DefaultMaxPlanIterations
  /\ dispatched = {}
  /\ merge_order = <<>>
  /\ reporter_runs = 0
  /\ \E m \in ReactMaxIterationsChoices : react_run = [NoReactRun EXCEPT !.max_iterations = m]
  /\ batch = NoBatch
  /\ planner_calls = 0

\* a reasoning outcome that keeps the loop going other than by calling a registered tool
ReasoningDetour(outcome) ==
  /\ outcome.kind = "response" /\ outcome.content.form = "json_object"
  /\ Get(outcome.content.object, "action", "finish") # "finish"
  /\ ~(outcome.content.object.action = "call_tool" /\ Get(outcome.content.object, "tool_name", "") \in KnownTools)

RunReasoning(i) ==
  /\ ~Aborted
  /\ active[i].node = "reasoning" /\ active[i].pc = "ready"
  /\ \E outcome \in ReasoningOutcomes :
       LET cmd == record_execution(reasoning_node(active[i].input, outcome))
           detour == cmd.llm_calls > 0 /\ ReasoningDetour(outcome)
       IN /\ detour => react_run.detours < MaxReactDetours
          /\ active' = [active EXCEPT ![i] = [Returned(@, cmd) EXCEPT !.made = IF cmd.llm_calls = 0 THEN NoOutcome ELSE outcome]]
          /\ react_run' = [react_run EXCEPT !.passes = @ + 1, !.llm_calls = @ + cmd.llm_calls, !.detours = @ + (IF detour THEN 1 ELSE 0)]
  /\ UNCHANGED <<state, plan_obj, max_plan_iterations, dispatched, merge_order, reporter_runs, batch, planner_calls>>

RunAction(i) ==
  /\ ~Aborted
  /\ active[i].node = "action" /\ active[i].pc = "ready"
  /\ \E tool_outcome \in ToolOutcomes :
       LET cmd == record_execution(action_node(active[i].input, tool_outcome))
           detour == cmd.tool_calls > 0 /\ tool_outcome = "raises"
       IN /\ detour => react_run.detours < MaxReactDetours
          /\ active' = [active EXCEPT ![i] = [Returned(@, cmd) EXCEPT !.made = IF cmd.tool_calls = 0 THEN NoOutcome ELSE [kind |-> tool_outcome, calls |-> <<>>]]]
          /\ react_run' = [react_run EXCEPT !.tool_calls = @ + cmd.tool_calls, !.detours = @ + (IF detour THEN 1 ELSE 0)]
  /\ UNCHANGED <<state, plan_obj, max_plan_iterations, dispatched, merge_order, reporter_runs, batch, planner_calls>>

\* the targets of the next superstep: every goto of a Command, every static edge, and
\* what should_continue answers for an action node on the State with its update applied
ReactTargets(acts, st) ==
  UNION {acts[i].goto : i \in DOMAIN acts}
  \cup {e[2] : e \in {e \in ReactEdges : \E i \in DOMAIN acts : acts[i].node = e[1]}}
  \cup {ReactConditionalEdges[should_continue(st)] : i \in {j \in DOMAIN acts : acts[j].node = "action"}}

NextActiveReact(acts, st) ==
  LET named == SelectSeq(<<"reasoning", "action">>, LAMBDA n : n \in ReactTargets(acts, st))
  IN [k \in DOMAIN named |-> Activation(named[k], st)]

NextSuperstepReact ==
  /\ ~Aborted
  /\ active # <<>>
  /\ \A i \in DOMAIN active : active[i].pc = "merged"
  /\ active' = IF ReactTargets(active, state) \subseteq ReactNodes \cup {END}
                 THEN NextActiveReact(active, state)
                 ELSE Rejected(active)
  /\ merge_order' = <<>>
  /\ UNCHANGED <<state, plan_obj, max_plan_iterations, dispatched, reporter_runs, react_run, batch, planner_calls>>

NextReact ==
  \/ \E i \in DOMAIN active : RunReasoning(i)
  \/ \E i \in DOMAIN active : RunAction(i)
  \/ \E i \in DOMAIN active : ApplyUpdate(i)
  \/ NextSuperstepReact

SpecReact == InitReact /\ [][NextReact]_vars

FairSpecReact == SpecReact /\ WF_vars(NextReact)

\* ----------------------------------------------------------- ReAct claims
Reasonings == {i \in DOMAIN active : active[i].node = "reasoning"}

Actions == {i \in DOMAIN active : active[i].node = "action"}

\* the engine starts the next superstep in this step
Joined == active # <<>> /\ (\A i \in DOMAIN active : active[i].pc = "merged") /\ active' # active

\* activation i is a reasoning pass whose LLM response was parsed into a record
ParsedPass(i) ==
  /\ active'[i].made.kind = "response"
  /\ _parse_react_response(active'[i].made.content).kind = "dict"

\* C22 as stated: every execution of the Reasoning node, whatever its outcome, adds
\* exactly 1 to react_iterations, and nothing else changes the counter.
C22_StatedStep ==
  /\ \A i \in Reasonings : Ran(i, "reasoning") =>
        /\ "react_iterations" \in DOMAIN active'[i].update
        /\ active'[i].update.react_iterations = active[i].input.react_iterations + 1
  /\ state'.react_iterations # state.react_iterations =>
        /\ state'.react_iterations = state.react_iterations + 1
        /\ \E i \in Reasonings : Merged(i)

C22_EveryPassCounts == [][C22_StatedStep]_vars

\* C22 amended: a Reasoning execution that gets an LLM response and parses it into a
\* record (the implicit finish for unparseable text included) adds exactly 1 to
\* react_iterations; one that runs at the cap, or whose LLM call or parsing raises, leaves
\* the counter alone; nothing else changes it.
C22_Step ==
  /\ \A i \in Reasonings : Ran(i, "reasoning") =>
        IF ParsedPass(i)
          THEN /\ "react_iterations" \in DOMAIN active'[i].update
               /\ active'[i].update.react_iterations = active[i].input.react_iterations + 1
          ELSE "react_iterations" \notin DOMAIN active'[i].update
  /\ state'.react_iterations # state.react_iterations =>
        /\ state'.react_iterations = state.react_iterations + 1
        /\ \E i \in Reasonings : Merged(i)

C22_ParsedPassCounts == [][C22_Step]_vars

C22_Witness ==
  /\ state.react_iterations = 2
  /\ \E i \in Reasonings : active[i].pc = "merged" /\ active[i].made.kind = "llm_error"

\* C23 as stated: after an Action pass Reasoning is entered again exactly when the run is
\* not finished (react_finish false, action not finish) and react_iterations is under
\* the cap; otherwise the run ends there, with no further pass.
C23_StatedStep ==
  (Joined /\ Actions # {}) =>
     IF /\ ~Get(state, "react_finish", FALSE)
        /\ Get(state, "react_current_action", "finish") # "finish"
        /\ Get(state, "react_iterations", 0) < MAX_REACT_ITERATIONS
       THEN active' = <<Activation("reasoning", state)>>
       ELSE active' = <<>>

C23_ContinueIffUnderCap == [][C23_StatedStep]_vars

\* C24 as stated: react_iterations never exceeds the configured agent.react.max_iterations,
\* a run makes at most that many reasoning LLM calls, and a Reasoning pass that finds the
\* counter at that value makes no LLM call and forces finish.
C24_CapStep ==
  \A i \in Reasonings :
     (Ran(i, "reasoning") /\ active[i].input.react_iterations >= react_run.max_iterations) =>
        /\ active'[i].llm_calls = 0
        /\ Get(active'[i].update, "react_finish", FALSE)

C24_BoundedByConfiguredMax ==
  /\ [](state.react_iterations <= react_run.max_iterations)
  /\ [](react_run.llm_calls <= react_run.max_iterations)
  /\ [][C24_CapStep]_vars

\* C25: a Reasoning pass under the cap that returns action = finish sets the final answer
\* to its final_answer; the Action pass that follows executes no tool and changes
\* nothing, the run ends right after it, and the final answer is still that final_answer.
C25_FinishStep ==
  /\ \A i \in Reasonings : (Ran(i, "reasoning") /\ ParsedPass(i)
                             /\ Get(_parse_react_response(active'[i].made.content).value, "action", "finish") = "finish") =>
        /\ active'[i].goto = {"action"}
        /\ Get(active'[i].update, "react_finish", FALSE)
        /\ Get(active'[i].update, "plan_result", None) = Get(_parse_react_response(active'[i].made.content).value, "final_answer", "")
  /\ \A i \in Actions : (Ran(i, "action") /\ Get(active[i].input, "react_current_action", "finish") = "finish") =>
        /\ active'[i].tool_calls = 0 /\ active'[i].update = NoUpdate /\ active'[i].goto = {END}
        /\ react_run' = react_run
  /\ \A i \in Actions : (Merged(i) /\ Get(active[i].input, "react_current_action", "finish") = "finish") => state' = state
  /\ (Joined /\ Actions # {} /\ Get(state, "react_current_action", "finish") = "finish") => active' = <<>>

C25_FinishEndsRun ==
  /\ [](\A i \in Actions : Get(active[i].input, "react_current_action", "finish") = "finish" => active[i].input = state)
  /\ [][C25_FinishStep]_vars

C25_Witness ==
  /\ active = <<>> /\ state.react_iterations = 3 /\ react_run.tool_calls = 2
  /\ state.react_current_action = "finish" /\ state.plan_result = "answer"

\* a reasoning pass that met a failing LLM call or a response that is no record
Unparseable(i) ==
  /\ i \in Reasonings /\ active[i].pc # "ready" /\ active[i].made.kind # "none"
  /\ \/ active[i].made.kind = "llm_error"
     \/ active[i].made.content.form # "json_object"

\* once react_finish is set the next Action pass ends the run, with an answer in State
C26_EndStep ==
  /\ \A i \in Actions : (Ran(i, "action") /\ Get(active[i].input, "react_finish", FALSE)) =>
        (active'[i].update = NoUpdate /\ active'[i].goto = {END})
  /\ (Joined /\ Actions # {} /\ Get(state, "react_finish", FALSE)) => (active' = <<>> /\ state.plan_result # None)

\* C26: a Reasoning pass never raises; when the LLM call fails or the response cannot be
\* parsed into a record (text that is no JSON, JSON that is no object, content that is no
\* text) the pass returns an implicit finish with a text as the answer, and the run ends.
C26_ImplicitFinish ==
  /\ [](\A i \in Reasonings : active[i].pc # "raised")
  /\ [](\A i \in Reasonings : Unparseable(i) =>
          /\ Done(i) /\ active[i].goto = {"action"}
          /\ Get(active[i].update, "react_finish", FALSE)
          /\ Get(active[i].update, "plan_result", None) # None
          /\ active[i].made.kind = "response" /\ active[i].made.content.form = "text" =>
                Get(active[i].update, "plan_result", None) \in {active[i].made.content.text, active[i].made.content.match})
  /\ [][C26_EndStep]_vars

C26_Witness ==
  /\ active = <<>> /\ state.react_iterations = 1 /\ react_run.llm_calls = 2
  /\ state.plan_result = "Error during reasoning"

\* an action pass that is to call a tool
CallsTool(i) ==
  /\ Get(active[i].input, "react_current_action", "finish") = "call_tool"
  /\ Get(active[i].input, "react_current_tool_name", "") # ""
  /\ ~Get(active[i].input, "react_finish", FALSE)

\* C27: an Action pass with action = call_tool whose tool is unknown or whose invocation
\* raises does not raise itself: it appends the error as one observation message, changes
\* no other key, and Reasoning comes next; an Action pass with action = finish changes
\* nothing in State.
C27_ActionStep ==
  /\ \A i \in Actions : (Ran(i, "action") /\ CallsTool(i)
                          /\ (active[i].input.react_current_tool_name \notin KnownTools \/ active'[i].made.kind = "raises")) =>
        /\ DOMAIN active'[i].update = {"messages"}
        /\ Len(active'[i].update.messages) = Len(active[i].input.messages) + 1
        /\ SubSeq(active'[i].update.messages, 1, Len(active[i].input.messages)) = active[i].input.messages
        /\ active'[i].update.messages[Len(active'[i].update.messages)] \in
              {HumanMessage("Observation: Error: Unknown tool"), HumanMessage("Observation: Tool execution error")}
        /\ active'[i].goto = {"reasoning"}
  /\ (Joined /\ \E i \in Actions : CallsTool(i)) => active' = <<Activation("reasoning", state)>>
  /\ \A i \in Actions : (Ran(i, "action") /\ Get(active[i].input, "react_current_action", "finish") = "finish") =>
        active'[i].update = NoUpdate
  /\ \A i \in Actions : (Merged(i) /\ active[i].update = NoUpdate) => state' = state

C27_ToolErrorIsObservation == [](\A i \in Actions : active[i].pc # "raised") /\ [][C27_ActionStep]_vars

C27_Witness ==
  /\ react_run.detours = 1
  /\ \E i \in Reasonings :
        /\ active[i].pc = "ready" /\ active[i].input.messages # <<>>
        /\ active[i].input.messages[Len(active[i].input.messages)] = HumanMessage("Observation: Tool execution error")

\* ------------------------------------------------- the output of a run
\* PlanAndExecuteFramework.extract_result: what the runner keeps of the final State
extract_result(final_state) ==
  [plan_result |-> Get(final_state, "plan_result", ""),
   planner_training_data |-> Get(final_state, "planner_training_data", NoUpdate),
   worker_training_data |-> Get(final_state, "worker_training_data", <<>>),
   reporter_training_data |-> Get(final_state, "reporter_training_data", NoUpdate),
   planner_intent |-> Get(final_state, "planner_intent", "")]

\* the run was ended by the planner's check of plan_iterations against the cap
CapTerminated == Ended /\ reporter_runs = 1 /\ state.plan_iterations >= max_plan_iterations

\* the final States of the runs under the cap whose planner produced no plan
PlanningFailureFinalStates ==
  {_merge_updates(prepare_initial_state("context"),
                  record_execution(reporter_node(prepare_initial_state("context"), EmptyPlan, outcome)).update) :
     outcome \in ReporterOutcomes \ {"setup_exception"}}

\* the extracted result of the run under the cap whose plan is one step of one task, the
\* task FAILED and the reporter wrote a report
AllFailedStepResult ==
  [plan_result |-> "report",
   planner_training_data |-> [steps |-> <<1>>, intent |-> "intent"],
   worker_training_data |-> <<>>,
   reporter_training_data |-> [final_answer |-> "report"],
   planner_intent |-> "intent"]

\* runs that were not stopped by the cap and end with these outputs
C28_UncappedPlanningFailure ==
  Ended /\ reporter_runs = 1 /\ state.plan_iterations < max_plan_iterations /\ state \in PlanningFailureFinalStates

C28_UncappedAllFailed ==
  /\ Ended /\ reporter_runs = 1 /\ state.plan_iterations < max_plan_iterations
  /\ extract_result(state) = AllFailedStepResult

\* C28 as stated (Plan-and-Execute): a run that the cap on plan_iterations terminated is
\* told apart from every run that ended under the cap by its final State or by its
\* extracted result.
C28_CapIsMarked ==
  CapTerminated => (state \notin PlanningFailureFinalStates /\ extract_result(state) # AllFailedStepResult)

\* the step under the cursor has run: every Task of it is COMPLETED or FAILED, at least
\* one is FAILED and at least one is not
PartlyFailed(step) ==
  /\ \A j \in DOMAIN step.tasks : Terminal(step.tasks[j])
  /\ \E j \in DOMAIN step.tasks : step.tasks[j].status = FAILED
  /\ ~AllFailed(step)

\* C29: the planner pass that finds the step under the cursor partly failed marks it
\* COMPLETED and advances the cursor, leaving its Tasks as they are; a FAILED Task stays
\* FAILED for the rest of the run; the workers of a fan-out get Tasks that no worker was
\* given before, so each Task is dispatched at most once.
C29_Step ==
  /\ \A i \in Planners :
        (Ran(i, "planner") /\ HasPlan /\ _has_pending_step(plan_obj) /\ PartlyFailed(CurrentStep)) =>
           /\ plan_obj'.steps[plan_obj.current_step_index + 1].status = COMPLETED
           /\ plan_obj'.steps[plan_obj.current_step_index + 1].tasks = CurrentStep.tasks
           /\ plan_obj'.current_step_index = plan_obj.current_step_index + 1
           /\ active'[i].sends = <<>> /\ active'[i].goto = {"planner"}
  /\ \A r \in TaskRefs(plan_obj) : TaskAt(plan_obj, r).status = FAILED => TaskAt(plan_obj', r).status = FAILED
  /\ Joined =>
        \A k \in DOMAIN active' : active'[k].node = "worker_node" =>
           /\ TaskAt(plan_obj, active'[k].input.current_task).task_id \notin dispatched
           /\ \A l \in DOMAIN active' : (active'[l].node = "worker_node" /\ active'[l].input.current_task = active'[k].input.current_task) => l = k

C29_PartialFailureAccepted == [][C29_Step]_vars

C29_Witness ==
  /\ Ended /\ reporter_runs = 1 /\ HasPlan
  /\ plan_obj.current_step_index = Len(plan_obj.steps)
  /\ \E s \in DOMAIN plan_obj.steps :
        /\ plan_obj.steps[s].status = COMPLETED
        /\ \E j \in DOMAIN plan_obj.steps[s].tasks : plan_obj.steps[s].tasks[j].status = FAILED

\* C30 as stated: every Plan-and-Execute run comes to execute the reporter and then ends
\* at the terminal marker, whatever the plan and the outcomes of its tasks.
C30_RunReachesTerminal == <>(Ended /\ reporter_runs = 1)

C32_CompletedMessagesKept ==
  (Workers # {} /\ \A i \in Workers : active[i].pc = "merged") =>
     \A i \in Workers :
        TaskAt(plan_obj, active[i].input.current_task).status = COMPLETED =>
           \A k \in DOMAIN active[i].update.messages :
              active[i].update.messages[k].src = TaskAt(plan_obj, active[i].input.current_task).task_id =>
                 \E n \in DOMAIN state.messages : state.messages[n] = active[i].update.messages[k]

\* the first planner pass of a run: no plan, zero iterations
FirstPass(i) ==
  /\ i \in Planners /\ active[i].input.current_plan = None /\ active[i].input.plan_iterations = 0

Seeded(messages) ==
  /\ \E n \in DOMAIN messages : messages[n] = HumanMessage("context")
  /\ \E n \in DOMAIN messages : messages[n] = HumanMessage("query")

\* C33 as stated: once the update of the first planner pass is applied, State's message
\* log holds the context message and the query message, whether the pass generated a
\* plan or not.
C33_FirstPassSeedsMessages ==
  \A i \in DOMAIN active : (FirstPass(i) /\ active[i].pc = "merged") => Seeded(state.messages)

\* the node function of activation i raises in this step
Raises(i) ==
  /\ i \in DOMAIN active /\ active[i].pc = "ready"
  /\ i \in DOMAIN active' /\ active'[i].pc # "ready" /\ active'[i].made.kind = "setup_exception"

\* C34: when a node function raises, its wrapper raises too: the execution ends raised
\* with no update and no routing target, State is untouched by it, and the run is over:
\* nothing is executed, merged or scheduled after it.
C34_RaiseStep ==
  /\ \A i \in DOMAIN active : Raises(i) =>
        /\ active'[i].pc = "raised"
        /\ active'[i].update = NoUpdate /\ active'[i].goto = {} /\ active'[i].sends = <<>>
        /\ state' = state
  /\ ~Aborted

C34_ExceptionPropagates ==
  /\ [](\A i \in DOMAIN active : active[i].made.kind = "setup_exception" => active[i].pc = "raised")
  /\ [][C34_RaiseStep]_vars

C34_Witness ==
  /\ \E i \in Workers : active[i].pc = "raised"
  /\ \E k \in Workers : active[k].pc = "merged" /\ TaskAt(plan_obj, active[k].input.current_task).status = COMPLETED
  /\ \E k \in Workers : active[k].pc = "returned"

\* ------------------------------------------------- a run of either strategy
IsReactRun == react_run.max_iterations > 0

InitEither == Init \/ InitReact

NextEither ==
  \/ ~IsReactRun /\ Next
  \/ IsReactRun /\ NextReact

SpecEither == InitEither /\ [][NextEither]_vars

Registered == IF IsReactRun THEN ReactNodes ELSE Nodes

\* C35: in a run of either strategy every node that is executed, every goto of a returned
\* Command and the node named by every fan-out branch is a node registered in that
\* strategy's graph, or the terminal marker for a goto; so are the ends of the static and
\* conditional edges; no run is ended by the rejection of an unregistered target.
C35_TargetsRegistered ==
  /\ \A i \in DOMAIN active :
        /\ active[i].node \in Registered
        /\ active[i].goto \subseteq Registered \cup {END}
        /\ active[i].sends # <<>> => (~IsReactRun /\ SendTarget \in Nodes)
        /\ active[i].pc = "raised" => active[i].made.kind = "setup_exception"
  /\ \A e \in Edges : e[1] \in Nodes /\ e[2] \in Nodes \cup {END}
  /\ \A e \in ReactEdges : e[1] \in ReactNodes /\ e[2] \in ReactNodes \cup {END}
  /\ \A k \in DOMAIN ReactConditionalEdges : ReactConditionalEdges[k] \in ReactNodes \cup {END}
  /\ EntryPoint \in Nodes /\ ReactEntryPoint \in ReactNodes

C35_Witness ==
  /\ ~IsReactRun
  /\ \E i \in Planners : active[i].pc = "merged" /\ Len(active[i].sends) >= 2 /\ active[i].goto = {}
  /\ plan_obj.current_step_index = 1

\* ============================================================ BatchRunner
\* the cases of a batch, and how many times BatchRunner.run is called on them
MaxCases == 2
MaxBatchRuns == 2

Cases == Indices(MaxCases)

\* the texts str(e) can give for an exception: a message, or nothing
ExceptionTexts == {"error", ""}

\* what running one case can meet: the graph returns a final State, or an exception
\* leaves the graph or the preparation of the run
RunOutcomes == {[kind |-> "returns", text |-> ""]} \cup {[kind |-> "raises", text |-> t] : t \in ExceptionTexts}

\* RunResult, with the fields the runner looks at
RunResult(case_id, error) == [case_id |-> case_id, error |-> error]

\* the truth value Python gives a str | None
Truthy(v) == v # None /\ v # ""

_run_with_graph(case, outcome) ==
  IF outcome.kind = "raises" THEN RunResult(case, outcome.text) ELSE RunResult(case, None)

run_single(case, outcome) == _run_with_graph(case, outcome)

\* load_checkpoint: the completed list of the file, empty when there is no file
load_checkpoint(checkpoint_file) == IF checkpoint_file.exists THEN checkpoint_file.completed ELSE <<>>

\* BatchRunner.run: the list written to the checkpoint
new_completed(completed, results) ==
  LET kept == SelectSeq(results, LAMBDA r : ~Truthy(r.error))
  IN completed \o [k \in DOMAIN kept |-> kept[k].case_id]

\* BatchRunner.run: the cases that are not in the loaded checkpoint
pending_cases(cases, completed) ==
  SelectSeq(cases, LAMBDA c : \A k \in DOMAIN completed : completed[k] # c)

InitBatch ==
  /\ state = NoUpdate
  /\ plan_obj = EmptyPlan
  /\ active = <<>>
  /\ max_plan_iterations = DefaultMaxPlanIterations
  /\ dispatched = {}
  /\ merge_order = <<>>
  /\ reporter_runs = 0
  /\ react_run = NoReactRun
  /\ batch = [NoBatch EXCEPT !.phase = "idle"]
  /\ planner_calls = 0

\* BatchRunner.run up to the filtering of the cases
BatchStart ==
  /\ batch.phase = "idle" /\ batch.runs < MaxBatchRuns
  /\ \E resume_from \in BOOLEAN :
       LET completed == IF resume_from THEN load_checkpoint(batch.checkpoint_file) ELSE <<>>
       IN batch' = [batch EXCEPT !.phase = "running", !.resume_from = resume_from, !.completed = completed,
                                 !.pending_cases = pending_cases(Cases, completed), !.results = <<>>, !.runs = @ + 1]
  /\ UNCHANGED <<state, plan_obj, active, max_plan_iterations, dispatched, merge_order, reporter_runs, react_run, planner_calls>>

\* run_batch: the next pending case is run and its result appended
BatchRunCase ==
  /\ batch.phase = "running" /\ Len(batch.results) < Len(batch.pending_cases)
  /\ \E outcome \in RunOutcomes :
       batch' = [batch EXCEPT !.results = Append(@, run_single(batch.pending_cases[Len(batch.results) + 1], outcome))]
  /\ UNCHANGED <<state, plan_obj, active, max_plan_iterations, dispatched, merge_order, reporter_runs, react_run, planner_calls>>

\* save_checkpoint: the file is created or overwritten
save_checkpoint(completed) == [exists |-> TRUE, completed |-> completed]

\* BatchRunner.run after the cases have run: the checkpoint is written
BatchSave ==
  /\ batch.phase = "running" /\ Len(batch.results) = Len(batch.pending_cases)
  /\ batch' = [batch EXCEPT !.phase = "idle", !.checkpoint_file = save_checkpoint(new_completed(batch.completed, batch.results))]
  /\ UNCHANGED <<state, plan_obj, active, max_plan_iterations, dispatched, merge_order, reporter_runs, react_run, planner_calls>>

NextBatch == BatchStart \/ BatchRunCase \/ BatchSave

SpecBatch == InitBatch /\ [][NextBatch]_vars

\* ------------------------------------------------------ BatchRunner claims
InList(seq, x) == \E k \in DOMAIN seq : seq[k] = x

\* C36 as stated: a resumed run runs no case of the loaded checkpoint; the checkpoint it
\* writes holds the loaded case_ids followed by the case_ids of the results without
\* error, and not the case_id of a case whose result carries an error, which the next
\* resumed run therefore runs again.
C36_StatedStep ==
  /\ (batch.phase = "running" /\ batch.resume_from /\ Len(batch'.results) > Len(batch.results)) =>
        ~InList(batch.completed, batch'.results[Len(batch'.results)].case_id)
  /\ (batch.phase = "running" /\ batch'.phase = "idle" /\ batch.resume_from) =>
        /\ \A c \in 1..MaxCases : InList(batch.completed, c) => InList(batch'.checkpoint_file.completed, c)
        /\ \A k \in DOMAIN batch.results :
              IF batch.results[k].error = None
                THEN InList(batch'.checkpoint_file.completed, batch.results[k].case_id)
                ELSE ~InList(batch'.checkpoint_file.completed, batch.results[k].case_id)
  /\ (batch.phase = "idle" /\ batch'.phase = "running" /\ batch'.resume_from) =>
        \A k \in DOMAIN batch.results :
           batch.results[k].error # None => InList(batch'.pending_cases, batch.results[k].case_id)

C36_CheckpointResumption == [][C36_StatedStep]_vars

\* C37: the reporter is executed at most once in a run, and exactly once in a run that
\* has ended; while it is scheduled it is the only node of its superstep, so no worker
\* branch is in flight; once it has been executed no planner or worker is executed, and
\* the superstep after it is empty.
C37_LastStep ==
  /\ reporter_runs >= 1 => \A i \in DOMAIN active : ~Ran(i, "planner") /\ ~Ran(i, "worker_node") /\ ~Ran(i, "reporter")
  /\ (Reporters # {} /\ active' # active /\ \A i \in DOMAIN active : active[i].pc = "merged") => active' = <<>>

C37_ReporterOnceAndLast ==
  /\ [](reporter_runs <= 1)
  /\ [](Ended => reporter_runs = 1)
  /\ [](Reporters # {} => (Len(active) = 1 /\ Workers = {} /\ Planners = {}))
  /\ [][C37_LastStep]_vars

C37_Witness ==
  /\ Reporters # {} /\ active[1].pc = "returned" /\ reporter_runs = 1
  /\ HasPlan /\ Len(plan_obj.steps) >= 2 /\ plan_obj.current_step_index = Len(plan_obj.steps)

\* C38: over a whole run the planner makes at most one LLM call, and makes it on a pass
\* that starts without a plan; a pass that dispatches the tasks of a step, advances the
\* cursor or routes to the reporter from a plan makes none; after a failed planning
\* attempt the planner is not executed again.
C38_PlannerStep ==
  \A i \in Planners : Ran(i, "planner") =>
     /\ active'[i].llm_calls <= 1
     /\ active'[i].llm_calls = 1 => (active[i].input.current_plan = None /\ planner_calls = 0)
     /\ active[i].input.current_plan = PlanRef => active'[i].llm_calls = 0
     /\ \A k \in Planners : active[k].made.kind # "no_plan"

C38_OnePlanningCall == [](planner_calls <= 1) /\ [][C38_PlannerStep]_vars

C38_Witness ==
  /\ planner_calls = 1 /\ HasPlan /\ plan_obj.current_step_index = 1
  /\ \E i \in Planners : active[i].pc = "returned" /\ active[i].sends # <<>> /\ active[i].llm_calls = 0

\* what of a Plan is its structure: the Steps in their order, and of each Step the Tasks
\* in their order with their task_id and description
Structure(plan) ==
  [s \in DOMAIN plan.steps |->
     [j \in DOMAIN plan.steps[s].tasks |->
        [task_id |-> plan.steps[s].tasks[j].task_id, task_description |-> plan.steps[s].tasks[j].task_description]]]

\* C39: once a plan has been generated no step of the run changes its structure; a Step
\* keeps every field but status and tasks, a Task every field but status,
\* execution_result and tool_list; and State goes on referring to that plan.
C39_FrameStep ==
  HasPlan =>
     /\ Structure(plan_obj') = Structure(plan_obj)
     /\ DOMAIN plan_obj' = DOMAIN plan_obj
     /\ \A s \in DOMAIN plan_obj.steps : DOMAIN plan_obj'.steps[s] = DOMAIN plan_obj.steps[s]
     /\ \A r \in TaskRefs(plan_obj) : DOMAIN TaskAt(plan_obj', r) = DOMAIN TaskAt(plan_obj, r)
     /\ state.current_plan = PlanRef => state'.current_plan = PlanRef

C40_ToolStep ==
  /\ \A i \in Actions : Ran(i, "action") =>
        /\ active'[i].tool_calls <= 1
        /\ active'[i].tool_calls = 1 =>
              /\ ~Get(active[i].input, "react_finish", FALSE)
              /\ Get(active[i].input, "react_current_action", "finish") = "call_tool"
              /\ Get(active[i].input, "react_current_tool_name", "") \in KnownTools
              /\ active[i].input.react_actions[Len(active[i].input.react_actions)] = "call_tool"
              /\ Len(active[i].input.react_actions) = active[i].input.react_iterations
        /\ Get(active[i].input, "react_finish", FALSE) => (active'[i].tool_calls = 0 /\ react_run' = react_run)
  /\ \A i \in Reasonings : (Ran(i, "reasoning") /\ "react_current_action" \notin DOMAIN active'[i].update) =>
        Get(active'[i].update, "react_finish", FALSE)

C40_ToolOnlyForFreshDecision ==
  /\ [](react_run.tool_calls <= state.react_iterations)
  /\ [][C40_ToolStep]_vars

C40_Witness ==
  /\ Ended /\ Get(state, "react_finish", FALSE) /\ Get(state, "plan_result", "") = "Error during reasoning"
  /\ Get(state, "react_current_action", "finish") = "call_tool"
  /\ Get(state, "react_current_tool_name", "") \in KnownTools
  /\ state.react_iterations = 2 /\ react_run.tool_calls = 2 /\ react_run.passes = 3

====
